---- MODULE Spec2Model ----
(***************************************************************************)
(* A model of the strided elementwise transform engine (Transform1) and of *)
(* the SSE integer-multiply emulations (npyv_mul_u8, npyv_mul_u32).        *)
(*                                                                         *)
(* Transform1 is modelled statement by statement.  Memory is one address   *)
(* space indexed in elements; every call owns an input and an output       *)
(* buffer.  Vector registers are functions from lane number to value.      *)
(***************************************************************************)
EXTENDS Integers, Sequences, FiniteSets, TLC

VARIABLES cfg, frame, vreg, mem, m8, m32

vars == <<cfg, frame, vreg, mem, m8, m32>>

(***************************************************************************)
(* Bounds of the model                                                     *)
(***************************************************************************)
\* lanes ranges over 1..MaxLanes and over one wide register (WideLanes)
MaxLanes == 4
\* count ranges over 0..MaxGroups*lanes
MaxGroups == 4
\* the concurrent specification: lanes and count of each of the two calls
ConcLanes == 2
ConcMaxCount == 3
\* number of neighbour-byte samples of the 8-bit multiply check
NumNeighbours == 2
\* number of 32-bit sample values of the 32-bit multiply check
NumSamples32 == 2

(***************************************************************************)
(* Fixed-width integers                                                    *)
(***************************************************************************)
Pow2(n) == 2 ^ n

\* the value of the low w bits of x, read as a two's-complement integer
ToSigned(w, x) ==
    LET m == x % Pow2(w)
    IN  IF m >= Pow2(w - 1) THEN m - Pow2(w) ELSE m

Min(a, b) == IF a < b THEN a ELSE b

(***************************************************************************)
(* Memory.  mem holds the elements written so far; every other element     *)
(* still has its initial content InitVal.                                  *)
(***************************************************************************)
InitVal(a) == (7 * a + 3) % 256

MemRead(m, a) == IF a \in DOMAIN m THEN m[a] ELSE InitVal(a)

\* the buffers of call t: far enough apart that no two in-range elements alias
InBase(t) == 200000 * t
OutBase(t) == 200000 * t + 100000

(***************************************************************************)
(* Highway operations used by Transform1.  A vector is a function on       *)
(* 0..lanes-1.  Index vectors hold signed integers of the element width w. *)
(***************************************************************************)
LaneIds(c) == 0 .. (c.lanes - 1)

\* Set(di, stride): the pointer-width stride converted to the lane type
SetDi(c, stride) == ToSigned(c.w, stride)

\* Mul on signed lanes of width w wraps modulo 2^w
MulDi(c, x, y) == ToSigned(c.w, x * y)

\* Mul(Iota(di, 0), Set(di, stride))
IndexVec(c, stride) == [j \in LaneIds(c) |-> MulDi(c, j, SetDi(c, stride))]

src_index(c) == IndexVec(c, c.in_stride)
dst_index(c) == IndexVec(c, c.out_stride)

\* the function applied by the caller: add 10, in the element width
FScalar(c, x) == (x + 10) % Pow2(c.w)
func(c, v) == [j \in LaneIds(c) |-> FScalar(c, v[j])]

\* addresses of the n first lanes of a contiguous / indexed access at p
ContigAddr(p, j) == p + j
IndexAddr(p, index, j) == p + index[j]

LoadU(c, m, p) == [j \in LaneIds(c) |-> MemRead(m, ContigAddr(p, j))]
GatherIndex(c, m, p, index) == [j \in LaneIds(c) |-> MemRead(m, IndexAddr(p, index, j))]

\* LoadN / GatherIndexN load min(n, lanes) lanes and zero the others
LoadN(c, m, p, n) ==
    [j \in LaneIds(c) |-> IF j < Min(n, c.lanes) THEN MemRead(m, ContigAddr(p, j)) ELSE 0]
GatherIndexN(c, m, p, index, n) ==
    [j \in LaneIds(c) |-> IF j < Min(n, c.lanes) THEN MemRead(m, IndexAddr(p, index, j)) ELSE 0]

\* stores of the n first lanes, lane 0 first
RECURSIVE StoreLanes(_, _, _, _, _)
StoreLanes(m, v, addr, j, n) ==
    IF j >= n THEN m
    ELSE StoreLanes((addr[j] :> v[j]) @@ m, v, addr, j + 1, n)

StoreU(c, m, v, p) ==
    StoreLanes(m, v, [j \in LaneIds(c) |-> ContigAddr(p, j)], 0, c.lanes)
ScatterIndex(c, m, v, p, index) ==
    StoreLanes(m, v, [j \in LaneIds(c) |-> IndexAddr(p, index, j)], 0, c.lanes)
StoreN(c, m, v, p, n) ==
    StoreLanes(m, v, [j \in LaneIds(c) |-> ContigAddr(p, j)], 0, Min(n, c.lanes))
ScatterIndexN(c, m, v, p, index, n) ==
    StoreLanes(m, v, [j \in LaneIds(c) |-> IndexAddr(p, index, j)], 0, Min(n, c.lanes))

(***************************************************************************)
(* Transform1, one operator per statement.  s is the view of one call: its *)
(* locals (pc, idx, inp, outp, v), the memory, and the history of the call *)
(* (ldlog, stlog: <<logical index, address>> of every element loaded and   *)
(* stored; pend: groups stored since the last cleanup; asserted: whether   *)
(* the debug assertion on remaining was evaluated, assertOK: its value).   *)
(***************************************************************************)
\* log entries of the n first lanes of the group starting at logical idx
InLaneAddr(c, s, j) ==
    IF c.in_stride = 1 THEN ContigAddr(s.inp, j) ELSE IndexAddr(s.inp, src_index(c), j)
OutLaneAddr(c, s, j) ==
    IF c.out_stride = 1 THEN ContigAddr(s.outp, j) ELSE IndexAddr(s.outp, dst_index(c), j)

RECURSIVE GroupLog(_, _, _, _, _)
GroupLog(log, idx, addr, j, n) ==
    IF j >= n THEN log
    ELSE GroupLog(Append(log, <<idx + j, addr[j]>>), idx, addr, j + 1, n)

\* line 80: if (count >= lanes)
DoEntry(c, s) ==
    [s EXCEPT !.pc = IF c.count >= c.lanes THEN "bulk_test" ELSE "check"]

\* line 81: the loop condition idx < count - lanes
BulkCond(c, s) == s.idx < c.count - c.lanes

DoBulkTest(c, s) ==
    [s EXCEPT !.pc = IF BulkCond(c, s) THEN "bulk_load" ELSE "check"]

\* lines 82-87
DoBulkLoad(c, s) ==
    [s EXCEPT !.v = IF c.in_stride = 1
                    THEN LoadU(c, s.mem, s.inp)
                    ELSE GatherIndex(c, s.mem, s.inp, src_index(c)),
              !.ldlog = GroupLog(s.ldlog, s.idx,
                                 [j \in LaneIds(c) |-> InLaneAddr(c, s, j)], 0, c.lanes),
              !.pc = "bulk_store"]

\* the statement that follows the store of a bulk group
\* (a variant that goes on to the next group at once)
AfterBulkStoreSkipsCleanup == "bulk_advance"
AfterBulkStore == "bulk_cleanup"

\* lines 88-93
DoBulkStore(c, s) ==
    [s EXCEPT !.mem = IF c.out_stride = 1
                      THEN StoreU(c, s.mem, func(c, s.v), s.outp)
                      ELSE ScatterIndex(c, s.mem, func(c, s.v), s.outp, dst_index(c)),
              !.stlog = GroupLog(s.stlog, s.idx,
                                 [j \in LaneIds(c) |-> OutLaneAddr(c, s, j)], 0, c.lanes),
              !.pend = s.pend + 1,
              !.pc = AfterBulkStore]

\* line 94: npyv_cleanup()
DoBulkCleanup(c, s) == [s EXCEPT !.pend = 0, !.pc = "bulk_advance"]

\* line 81: in += in_stride*lanes, out += out_stride*lanes, idx += lanes.
\* The product of the signed stride and the unsigned lanes is taken modulo the
\* pointer width, and so is the pointer addition: the pointer moves by the
\* signed product.
\* (a variant that forgets the factor lanes)
AdvanceInOneElement(c, s) == s.inp + c.in_stride
AdvanceIn(c, s) == s.inp + c.in_stride * c.lanes
AdvanceOut(c, s) == s.outp + c.out_stride * c.lanes

DoBulkAdvance(c, s) ==
    [s EXCEPT !.inp = AdvanceIn(c, s),
              !.outp = AdvanceOut(c, s),
              !.idx = s.idx + c.lanes,
              !.pc = "bulk_test"]

\* line 102
\* (a variant that forgets the elements the bulk loop consumed)
RemainingIgnoresIdx(c, s) == c.count
remaining(c, s) == c.count - s.idx

\* lines 99-103: the early return, and the debug assertion on remaining.
\* HWY_DASSERT expands to nothing in a release build, so a false assertion
\* is recorded and the call goes on.
DoCheck(c, s) ==
    IF s.idx = c.count
    THEN [s EXCEPT !.pc = "done"]
    ELSE [s EXCEPT !.asserted = TRUE,
                   !.assertOK = (0 # remaining(c, s) /\ remaining(c, s) < c.lanes),
                   !.pc = "tail_load"]

\* lines 104-109
DoTailLoad(c, s) ==
    [s EXCEPT !.v = IF c.in_stride = 1
                    THEN LoadN(c, s.mem, s.inp, remaining(c, s))
                    ELSE GatherIndexN(c, s.mem, s.inp, src_index(c), remaining(c, s)),
              !.ldlog = GroupLog(s.ldlog, s.idx,
                                 [j \in LaneIds(c) |-> InLaneAddr(c, s, j)], 0,
                                 Min(remaining(c, s), c.lanes)),
              !.pc = "tail_store"]

\* lines 110-115
DoTailStore(c, s) ==
    [s EXCEPT !.mem = IF c.out_stride = 1
                      THEN StoreN(c, s.mem, func(c, s.v), s.outp, remaining(c, s))
                      ELSE ScatterIndexN(c, s.mem, func(c, s.v), s.outp, dst_index(c),
                                         remaining(c, s)),
              !.stlog = GroupLog(s.stlog, s.idx,
                                 [j \in LaneIds(c) |-> OutLaneAddr(c, s, j)], 0,
                                 Min(remaining(c, s), c.lanes)),
              !.pend = s.pend + 1,
              !.pc = "tail_cleanup"]

\* line 116: npyv_cleanup(), then the return
DoTailCleanup(c, s) == [s EXCEPT !.pend = 0, !.pc = "done"]

\* one statement of the call, chosen by its position
DoStep(c, s) ==
    CASE s.pc = "entry"        -> DoEntry(c, s)
      [] s.pc = "bulk_test"    -> DoBulkTest(c, s)
      [] s.pc = "bulk_load"    -> DoBulkLoad(c, s)
      [] s.pc = "bulk_store"   -> DoBulkStore(c, s)
      [] s.pc = "bulk_cleanup" -> DoBulkCleanup(c, s)
      [] s.pc = "bulk_advance" -> DoBulkAdvance(c, s)
      [] s.pc = "check"        -> DoCheck(c, s)
      [] s.pc = "tail_load"    -> DoTailLoad(c, s)
      [] s.pc = "tail_store"   -> DoTailStore(c, s)
      [] s.pc = "tail_cleanup" -> DoTailCleanup(c, s)
      [] OTHER                 -> s

\* the call run to completion with nothing else running
RECURSIVE RunAlone(_, _)
RunAlone(c, s) == IF s.pc = "done" THEN s ELSE RunAlone(c, DoStep(c, s))

(***************************************************************************)
(* State of the calls                                                      *)
(***************************************************************************)
FrameFields == {"pc", "idx", "inp", "outp", "ldlog", "stlog", "pend", "asserted", "assertOK"}

\* Vec<D> v is a local of the call: every call has a register of its own
\* (a variant with one register of static storage for all calls)
VRegStatic(t) == 1
VReg(t) == t

ZeroVec(c) == [j \in LaneIds(c) |-> 0]

\* the locals at entry of call t
InitFrame(t) ==
    [pc |-> "entry", idx |-> 0, inp |-> InBase(t), outp |-> OutBase(t),
     ldlog |-> <<>>, stlog |-> <<>>, pend |-> 0, asserted |-> FALSE, assertOK |-> TRUE]

View(t) == frame[t] @@ [v |-> vreg[VReg(t)], mem |-> mem]

Apply(t, s) ==
    /\ frame' = [frame EXCEPT ![t] = [f \in FrameFields |-> s[f]]]
    /\ vreg' = [vreg EXCEPT ![VReg(t)] = s.v]
    /\ mem' = s.mem
    /\ UNCHANGED <<cfg, m8, m32>>

Calls == DOMAIN cfg

Entry(t)       == frame[t].pc = "entry"        /\ Apply(t, DoEntry(cfg[t], View(t)))
BulkTest(t)    == frame[t].pc = "bulk_test"    /\ Apply(t, DoBulkTest(cfg[t], View(t)))
BulkLoad(t)    == frame[t].pc = "bulk_load"    /\ Apply(t, DoBulkLoad(cfg[t], View(t)))
BulkStore(t)   == frame[t].pc = "bulk_store"   /\ Apply(t, DoBulkStore(cfg[t], View(t)))
BulkCleanup(t) == frame[t].pc = "bulk_cleanup" /\ Apply(t, DoBulkCleanup(cfg[t], View(t)))
BulkAdvance(t) == frame[t].pc = "bulk_advance" /\ Apply(t, DoBulkAdvance(cfg[t], View(t)))
Check(t)       == frame[t].pc = "check"        /\ Apply(t, DoCheck(cfg[t], View(t)))
TailLoad(t)    == frame[t].pc = "tail_load"    /\ Apply(t, DoTailLoad(cfg[t], View(t)))
TailStore(t)   == frame[t].pc = "tail_store"   /\ Apply(t, DoTailStore(cfg[t], View(t)))
TailCleanup(t) == frame[t].pc = "tail_cleanup" /\ Apply(t, DoTailCleanup(cfg[t], View(t)))

Next ==
    \E t \in Calls :
        \/ Entry(t)
        \/ BulkTest(t)
        \/ BulkLoad(t)
        \/ BulkStore(t)
        \/ BulkCleanup(t)
        \/ BulkAdvance(t)
        \/ Check(t)
        \/ TailLoad(t)
        \/ TailStore(t)
        \/ TailCleanup(t)

(***************************************************************************)
(* Inputs of one call                                                      *)
(***************************************************************************)
\* element widths: 8-bit and 16-bit elements (both narrower than a pointer)
ElemBits == {8, 16}

\* lanes of a 256-bit register
WideLanes(w) == 256 \div w

LaneChoices(w) == (1 .. MaxLanes) \cup {WideLanes(w)}

\* 1, 2, 5, -1: the strides of the strided-safety property; -3, 200: others
\* (200 elements: the column of a row-major array with rows of 200 elements)
Strides == {1, 2, 5, -1, -3, 200}

Config(w, lanes, is, os, count) ==
    [w |-> w, lanes |-> lanes, in_stride |-> is, out_stride |-> os, count |-> count]

IdleMul == [pc |-> "idle"]

InitCall(t, c) ==
    /\ cfg = (t :> c)
    /\ frame = (t :> InitFrame(t))
    /\ vreg = (t :> ZeroVec(c))

Init ==
    /\ \E w \in ElemBits : \E lanes \in LaneChoices(w) :
       \E is \in Strides : \E os \in Strides :
       \E count \in 0 .. (MaxGroups * lanes) :
           InitCall(1, Config(w, lanes, is, os, count))
    /\ mem = <<>>
    /\ m8 = IdleMul
    /\ m32 = IdleMul

Spec == Init /\ [][Next]_vars

(***************************************************************************)
(* SSE multiplication.  For the 8-bit multiply a register is its eight     *)
(* 16-bit lanes (a function on 0..7, each lane in 0..65535; the even byte  *)
(* of a lane is its low byte, the odd byte its high byte).                 *)
(***************************************************************************)
Lanes16 == 0 .. ((128 \div 16) - 1)

LoByte(x) == x % 256
HiByte(x) == x \div 256
MakeLane16(lo, hi) == lo + 256 * hi

\* the low 16 bits of the product of two 16-bit lanes
Mullo16(x, y) == (LoByte(x) * y + ((HiByte(x) * y) % 256) * 256) % 65536

mm_mullo_epi16(a, b) == [k \in Lanes16 |-> Mullo16(a[k], b[k])]

\* arithmetic shift right of each signed 16-bit lane
mm_srai_epi16(a, n) == [k \in Lanes16 |-> (ToSigned(16, a[k]) \div Pow2(n)) % 65536]

\* shift left of each 16-bit lane
mm_slli_epi16(a, n) == [k \in Lanes16 |-> (a[k] * Pow2(n)) % 65536]

\* _mm_set1_epi32 of the constant whose 16-bit halves are lo and hi
mm_set1_epi32(lo, hi) == [k \in Lanes16 |-> IF k % 2 = 0 THEN lo ELSE hi]

\* bytewise blend: the byte of a where the mask byte is set, else the byte of b
SelectByte(m, x, y) == IF m = 255 THEN x ELSE y

npyv_select_u8(mask, a, b) ==
    [k \in Lanes16 |->
        MakeLane16(SelectByte(LoByte(mask[k]), LoByte(a[k]), LoByte(b[k])),
                   SelectByte(HiByte(mask[k]), HiByte(a[k]), HiByte(b[k])))]

\* (a variant that leaves the odd product in the low byte of its lane)
npyv_mul_u8_NoShift(a, b) ==
    LET mask == mm_set1_epi32(65280, 65280)
        even == mm_mullo_epi16(a, b)
        odd  == mm_mullo_epi16(mm_srai_epi16(a, 8), mm_srai_epi16(b, 8))
    IN  npyv_select_u8(mask, odd, even)

\* lines 56-63; the mask 0xFF00FF00 has both 16-bit halves 0xFF00
npyv_mul_u8(a, b) ==
    LET mask == mm_set1_epi32(65280, 65280)
        even == mm_mullo_epi16(a, b)
        odd0 == mm_mullo_epi16(mm_srai_epi16(a, 8), mm_srai_epi16(b, 8))
        odd  == mm_slli_epi16(odd0, 8)
    IN  npyv_select_u8(mask, odd, even)

\* line 64: npyv_mul_s8 is npyv_mul_u8
npyv_mul_s8(a, b) == npyv_mul_u8(a, b)

Mul8 ==
    /\ m8.pc = "ready"
    /\ m8' = [m8 EXCEPT !.r = npyv_mul_u8(m8.a, m8.b),
                        !.rs = npyv_mul_s8(m8.a, m8.b),
                        !.pc = "done"]
    /\ UNCHANGED <<cfg, frame, vreg, mem, m32>>

NextMul8 == Mul8

\* neighbour bytes: the other byte of the 16-bit lane
NeighbourVals == <<0, 255, 128, 127, 1, 85>>
Neighbours == {NeighbourVals[k] : k \in 1 .. NumNeighbours}

\* byte x at position pos (0 even, 1 odd) of a lane, n at the other position
PlaceByte(pos, x, n) == IF pos = 0 THEN MakeLane16(x, n) ELSE MakeLane16(n, x)

\* a holds one byte value in every lane, b eight consecutive byte values
InitMul8 ==
    /\ \E pos \in {0, 1} : \E x \in 0 .. 255 : \E blk \in 0 .. 31 :
       \E na \in Neighbours : \E nb \in Neighbours :
           m8 = [pc |-> "ready",
                 a |-> [k \in Lanes16 |-> PlaceByte(pos, x, na)],
                 b |-> [k \in Lanes16 |-> PlaceByte(pos, 8 * blk + k, nb)],
                 r |-> [k \in Lanes16 |-> 0],
                 rs |-> [k \in Lanes16 |-> 0]]
    /\ cfg = <<>>
    /\ frame = <<>>
    /\ vreg = <<>>
    /\ mem = <<>>
    /\ m32 = IdleMul

SpecMul8 == InitMul8 /\ [][NextMul8]_vars

(***************************************************************************)
(* For the 32-bit multiply a register is its sixteen bytes (a function on  *)
(* 0..15, byte 0 the least significant); 32-bit lane i is bytes 4i..4i+3   *)
(* and 64-bit lane q is bytes 8q..8q+7.                                    *)
(***************************************************************************)
Bytes16 == 0 .. 15

\* the sum of the byte products x[i]*y[j] with i + j = k, for 4-byte x and y
Column(x, y, k) ==
    LET term(i) == IF k - i \in 0 .. 3 THEN x[i] * y[k - i] ELSE 0
    IN  term(0) + term(1) + term(2) + term(3)

\* column k of the 64-bit product plus the carry into it
RECURSIVE ColumnSum(_, _, _)
ColumnSum(x, y, k) ==
    IF k = 0 THEN Column(x, y, 0)
    ELSE Column(x, y, k) + (ColumnSum(x, y, k - 1) \div 256)

\* _mm_mul_epu32: the 64-bit product of the low 32 bits of each 64-bit lane
mm_mul_epu32(a, b) ==
    [p \in Bytes16 |->
        LET q == p \div 8
            x == [i \in 0 .. 3 |-> a[8 * q + i]]
            y == [i \in 0 .. 3 |-> b[8 * q + i]]
        IN  ColumnSum(x, y, p % 8) % 256]

\* _mm_srli_epi64 by a multiple of eight bits
mm_srli_epi64(a, n) ==
    [p \in Bytes16 |->
        IF (p % 8) + (n \div 8) < 8 THEN a[p + (n \div 8)] ELSE 0]

\* _mm_unpacklo_epi32: 32-bit lanes x0, y0, x1, y1
mm_unpacklo_epi32(x, y) ==
    [p \in Bytes16 |->
        LET i == p \div 4
            src == 4 * (i \div 2) + (p % 4)
        IN  IF i % 2 = 0 THEN x[src] ELSE y[src]]

\* _mm_unpackhi_epi32: 32-bit lanes x2, y2, x3, y3
mm_unpackhi_epi32(x, y) ==
    [p \in Bytes16 |->
        LET i == p \div 4
            src == 4 * (2 + (i \div 2)) + (p % 4)
        IN  IF i % 2 = 0 THEN x[src] ELSE y[src]]

\* _mm_unpacklo_epi64: 64-bit lanes x0, y0
mm_unpacklo_epi64(x, y) == [p \in Bytes16 |-> IF p < 8 THEN x[p] ELSE y[p - 8]]

\* (a variant that interleaves the odd partial products first)
npyv_mul_u32_OddFirst(a, b) ==
    LET even == mm_mul_epu32(a, b)
        odd  == mm_mul_epu32(mm_srli_epi64(a, 32), mm_srli_epi64(b, 32))
        low  == mm_unpacklo_epi32(odd, even)
        high == mm_unpackhi_epi32(odd, even)
    IN  mm_unpacklo_epi64(low, high)

\* lines 71-78 (the build without SSE4.1)
npyv_mul_u32(a, b) ==
    LET even == mm_mul_epu32(a, b)
        odd  == mm_mul_epu32(mm_srli_epi64(a, 32), mm_srli_epi64(b, 32))
        low  == mm_unpacklo_epi32(even, odd)
        high == mm_unpackhi_epi32(even, odd)
    IN  mm_unpacklo_epi64(low, high)

\* line 80: npyv_mul_s32 is npyv_mul_u32
npyv_mul_s32(a, b) == npyv_mul_u32(a, b)

Mul32 ==
    /\ m32.pc = "ready"
    /\ m32' = [m32 EXCEPT !.r = npyv_mul_u32(m32.a, m32.b),
                          !.rs = npyv_mul_s32(m32.a, m32.b),
                          !.pc = "done"]
    /\ UNCHANGED <<cfg, frame, vreg, mem, m8>>

NextMul32 == Mul32

\* 32-bit sample values, least significant byte first:
\* 0xFFFFFFFF, 0x12345678, 0x80000001, 0x0000FFFF, 3
SampleVals == << <<255, 255, 255, 255>>, <<120, 86, 52, 18>>, <<1, 0, 0, 128>>,
                 <<255, 255, 0, 0>>, <<3, 0, 0, 0>> >>
Samples32 == {SampleVals[k] : k \in 1 .. NumSamples32}

\* the register whose 32-bit lane i is the sample l[i]
MakeReg32(l) == [p \in Bytes16 |-> l[p \div 4][(p % 4) + 1]]

InitMul32 ==
    /\ \E la \in [0 .. 3 -> Samples32] : \E lb \in [0 .. 3 -> Samples32] :
           m32 = [pc |-> "ready", a |-> MakeReg32(la), b |-> MakeReg32(lb),
                  r |-> [p \in Bytes16 |-> 0], rs |-> [p \in Bytes16 |-> 0]]
    /\ cfg = <<>>
    /\ frame = <<>>
    /\ vreg = <<>>
    /\ mem = <<>>
    /\ m8 = IdleMul

SpecMul32 == InitMul32 /\ [][NextMul32]_vars

(***************************************************************************)
(* The concurrent specification: two calls on disjoint buffers, their      *)
(* statements interleaved in any order.                                    *)
(***************************************************************************)
ConcStrides == {1, 2, -1}

ConcConfigs ==
    {Config(8, ConcLanes, is, os, count) :
        is \in ConcStrides, os \in ConcStrides, count \in 0 .. ConcMaxCount}

InitConc ==
    /\ \E c1 \in ConcConfigs : \E c2 \in ConcConfigs :
        /\ cfg = (1 :> c1) @@ (2 :> c2)
        /\ vreg = (1 :> ZeroVec(c1)) @@ (2 :> ZeroVec(c2))
    /\ frame = (1 :> InitFrame(1)) @@ (2 :> InitFrame(2))
    /\ mem = <<>>
    /\ m8 = IdleMul
    /\ m32 = IdleMul

SpecConc == InitConc /\ [][Next]_vars

(***************************************************************************)
(* Properties of Transform1                                                *)
(***************************************************************************)
Done(t) == frame[t].pc = "done"

InAddr(t, i) == InBase(t) + i * cfg[t].in_stride
OutAddr(t, i) == OutBase(t) + i * cfg[t].out_stride

Indices(t) == 0 .. (cfg[t].count - 1)

OutputCorrect(t) ==
    \A i \in Indices(t) :
        MemRead(mem, OutAddr(t, i)) = FScalar(cfg[t], InitVal(InAddr(t, i)))

Contiguous(t) == cfg[t].in_stride = 1 /\ cfg[t].out_stride = 1

LogAddrs(log) == {log[k][2] : k \in 1 .. Len(log)}

\* C1: a call over contiguous buffers ends with out[i] = F(in[i]) for every
\* i in 0..count-1, whatever lanes and whatever count = k*lanes + r.
C1_ContiguousEquivalence ==
    \A t \in Calls : (Done(t) /\ Contiguous(t)) => OutputCorrect(t)

\* a contiguous call of two full groups and one of a ragged tail have returned
C1_Witness ==
    \E t \in Calls :
        /\ Done(t) /\ Contiguous(t)
        /\ cfg[t].lanes = 4
        /\ cfg[t].count = 2 * cfg[t].lanes + 1
        /\ OutputCorrect(t)

\* C2: with strides in {1, 2, 5, -1}, every element read lies at
\* in_base + i*in_stride and every element written at out_base + i*out_stride
\* for some i in 0..count-1; with count = 0 nothing is accessed.
SafetyStrides == {1, 2, 5, -1}

C2_StridedSafety ==
    \A t \in Calls :
        (cfg[t].in_stride \in SafetyStrides /\ cfg[t].out_stride \in SafetyStrides) =>
            /\ LogAddrs(frame[t].ldlog) \subseteq {InAddr(t, i) : i \in Indices(t)}
            /\ LogAddrs(frame[t].stlog) \subseteq {OutAddr(t, i) : i \in Indices(t)}

\* the number of log entries whose logical index is i
Times(log, i) == Cardinality({k \in 1 .. Len(log) : log[k][1] = i})

\* C3: when the call returns, count elements were read and count written, and
\* each logical index 0..count-1 was loaded exactly once and stored exactly once.
C3_EachIndexOnce ==
    \A t \in Calls :
        Done(t) =>
            /\ Len(frame[t].ldlog) = cfg[t].count
            /\ Len(frame[t].stlog) = cfg[t].count
            /\ \A i \in Indices(t) :
                Times(frame[t].ldlog, i) = 1 /\ Times(frame[t].stlog, i) = 1

\* a call with bulk groups and a tail has returned
C3_Witness ==
    \E t \in Calls :
        /\ Done(t)
        /\ cfg[t].lanes = 3
        /\ cfg[t].count = 8
        /\ Len(frame[t].ldlog) = 8

InTail(t) == frame[t].pc \in {"tail_load", "tail_store", "tail_cleanup"}

\* C4: whenever the call is in its tail path, 0 < count - idx < lanes; a count
\* that is a positive multiple of lanes returns without entering the tail.
C4_TailRemaining ==
    \A t \in Calls :
        /\ InTail(t) =>
            /\ 0 < remaining(cfg[t], frame[t])
            /\ remaining(cfg[t], frame[t]) < cfg[t].lanes
        /\ frame[t].asserted => frame[t].assertOK

\* C7: two calls on disjoint buffers, interleaved in any order, each end with
\* the memory the same call leaves when it runs alone.
AloneMem(t) ==
    RunAlone(cfg[t], InitFrame(t) @@ [v |-> ZeroVec(cfg[t]), mem |-> <<>>]).mem

C7_Reentrant ==
    (\A t \in Calls : Done(t)) =>
        \A t \in Calls :
            \A a \in DOMAIN AloneMem(t) : MemRead(mem, a) = AloneMem(t)[a]

\* both calls moved data and both have returned
C7_Witness ==
    /\ Calls = {1, 2}
    /\ \A t \in Calls : Done(t) /\ cfg[t].count = ConcMaxCount
    /\ cfg[1].in_stride = 1 /\ cfg[2].in_stride = -1

\* C8: every stored group is followed by a cleanup before the next load is
\* issued or the call returns.
C8_CleanupAfterEachGroup ==
    \A t \in Calls :
        /\ frame[t].pend <= 1
        /\ frame[t].pc \in {"bulk_load", "tail_load", "done"} => frame[t].pend = 0

\* a second bulk group is about to be loaded, the first one cleaned up
C8_Witness ==
    \E t \in Calls :
        /\ frame[t].pc = "bulk_load"
        /\ frame[t].idx = cfg[t].lanes
        /\ Len(frame[t].stlog) = cfg[t].lanes
        /\ frame[t].pend = 0

\* C9: lane j of src_index and of dst_index equals j * stride exactly.
C9_OffsetsExact ==
    \A t \in Calls : \A j \in LaneIds(cfg[t]) :
        /\ src_index(cfg[t])[j] = j * cfg[t].in_stride
        /\ dst_index(cfg[t])[j] = j * cfg[t].out_stride

\* C10: for arbitrary strides the call ends with
\* out_base[i*out_stride] = F(in_base[i*in_stride]) for every i, and at the
\* start of every group the running pointers are at logical index idx.
C10_StridedEquivalence ==
    \A t \in Calls :
        /\ Done(t) => OutputCorrect(t)
        /\ frame[t].pc \in {"bulk_load", "tail_load"} =>
            /\ frame[t].inp = InAddr(t, frame[t].idx)
            /\ frame[t].outp = OutAddr(t, frame[t].idx)

(***************************************************************************)
(* Properties of the multiply emulations                                   *)
(***************************************************************************)
\* the byte at position pos (0 even, 1 odd) of a 16-bit lane
ByteAt(x, pos) == IF pos = 0 THEN LoByte(x) ELSE HiByte(x)

\* C5: at the even and at the odd byte position of every 16-bit lane, the
\* byte npyv_mul_u8 / npyv_mul_s8 produces is (a * b) mod 2^8, read as unsigned
\* and read as signed, whatever the neighbouring byte of the lane.
C5_Mul8Exact ==
    m8.pc = "done" =>
        \A k \in Lanes16 : \A pos \in {0, 1} :
            LET x == ByteAt(m8.a[k], pos)
                y == ByteAt(m8.b[k], pos)
            IN  /\ ByteAt(m8.r[k], pos) = (x * y) % 256
                /\ ToSigned(8, ByteAt(m8.rs[k], pos)) =
                       ToSigned(8, ToSigned(8, x) * ToSigned(8, y))

\* an odd-position product of two negative bytes, beside a nonzero neighbour
C5_Witness ==
    /\ m8.pc = "done"
    /\ HiByte(m8.a[3]) = 200 /\ HiByte(m8.b[3]) = 131
    /\ LoByte(m8.a[3]) = 255 /\ LoByte(m8.b[3]) = 255
    /\ HiByte(m8.r[3]) = 88

\* 32-bit scalars as <<low half, high half>> of 16 bits each
Halves(x) == <<x[0] + 256 * x[1], x[2] + 256 * x[3]>>
AddH(g, h) ==
    <<(g[1] + h[1]) % 65536, (g[2] + h[2] + ((g[1] + h[1]) \div 65536)) % 65536>>
MulSmallH(h, k) ==
    <<(h[1] * k) % 65536, (h[2] * k + ((h[1] * k) \div 65536)) % 65536>>
Shl8H(h) == <<(h[1] * 256) % 65536, (h[2] * 256 + (h[1] \div 256)) % 65536>>
NegH(h) == AddH(<<65535 - h[1], 65535 - h[2]>>, <<1, 0>>)
IsNegH(h) == h[2] >= 32768
AbsH(h) == IF IsNegH(h) THEN NegH(h) ELSE h

\* the scalar product modulo 2^32, by Horner's rule over the bytes of y
RECURSIVE HornerMul(_, _, _)
HornerMul(h, y, i) ==
    IF i > 3 THEN <<0, 0>>
    ELSE AddH(Shl8H(HornerMul(h, y, i + 1)), MulSmallH(h, y[i]))

ScalarMulU32(x, y) == HornerMul(Halves(x), y, 0)

\* the signed scalar product: the product of the magnitudes, with its sign
ScalarMulS32(x, y) ==
    LET ax == AbsH(Halves(x))
        ay == AbsH(Halves(y))
        yb == [i \in 0 .. 3 |-> IF i = 0 THEN ay[1] % 256
                                ELSE IF i = 1 THEN ay[1] \div 256
                                ELSE IF i = 2 THEN ay[2] % 256
                                ELSE ay[2] \div 256]
        p  == HornerMul(ax, yb, 0)
    IN  IF IsNegH(Halves(x)) # IsNegH(Halves(y)) THEN NegH(p) ELSE p

Lane32(x, i) == [j \in 0 .. 3 |-> x[4 * i + j]]

\* C6: lane i of the emulated npyv_mul_u32 / npyv_mul_s32 is
\* (a[i] * b[i]) mod 2^32 for i in 0..3, in lane order 0, 1, 2, 3, under the
\* unsigned and under the signed reading.
C6_Mul32Exact ==
    m32.pc = "done" =>
        \A i \in 0 .. 3 :
            /\ Halves(Lane32(m32.r, i)) =
                   ScalarMulU32(Lane32(m32.a, i), Lane32(m32.b, i))
            /\ Halves(Lane32(m32.rs, i)) =
                   ScalarMulS32(Lane32(m32.a, i), Lane32(m32.b, i))

\* four different lane pairs were multiplied:
\* 0xFFFFFFFF * 0x12345678 in lane 0, the squares and the swapped pair beside
C6_Witness ==
    /\ m32.pc = "done"
    /\ Lane32(m32.a, 0) = [j \in 0 .. 3 |-> 255]
    /\ Halves(Lane32(m32.b, 0)) = <<22136, 4660>>
    /\ Halves(Lane32(m32.a, 1)) = <<22136, 4660>>
    /\ Halves(Lane32(m32.r, 0)) = <<43400, 60875>>
    /\ Lane32(m32.r, 0) # Lane32(m32.r, 1)

====
